---- MODULE Spec2Model ----
(***************************************************************************)
(* YOAKE membership backend: registration and LINE account linking, as     *)
(* HTTP handlers over three collaborators (Supabase store, Stripe, LINE).  *)
(* The repository holds three generations of the server:                   *)
(*   "legacy"  the single-file Express server   (src/unnamed/part_001)     *)
(*   "v1"      routes/auth.ts over services/databse.ts                     *)
(*   "v2"      the rate-limited routes (src/unnamed/part_006) over the     *)
(*             DatabaseService of services/line.ts                         *)
(* A run of the model is a run of one of them (variable build).  Every     *)
(* await on a collaborator is one step, so concurrent requests interleave  *)
(* at the awaits as they do on the Node event loop.  Store reads are taken *)
(* to succeed; store writes, Stripe and LINE calls may fail, and a LINE    *)
(* call may also never settle (no timeout is set on it anywhere).          *)
(***************************************************************************)
EXTENDS Integers, FiniteSets, Sequences, TLC

\* ------------------------------------------------------------- bounds
MaxCalls == 3

NULL == "null"

\* Instants of the wall clock, in ticks of 30 minutes since a UTC midnight:
\* 22:00 and 23:30 of one day, 00:00 of the next.
Instants == {44, 47, 48}
Start == CHOOSE t \in Instants : \A u \in Instants : t <= u
Builds == {"legacy", "v1", "v2"}
Reqs == {1, 2}
Emails == {"a@x.com", "b@x.com"}
Subs == {"sub1", "sub2"}
Payloads == {"missing", "incomplete", "complete"}

\* An ID token as the fields its checks read: three dot-separated parts with
\* a JSON payload (wellFormed), the sub claim, iss and aud present (issAud),
\* and exp in the past (expired).
GoodToken(s) == [wellFormed |-> TRUE, sub |-> s, issAud |-> TRUE, expired |-> FALSE]
ExpiredToken(s) == [wellFormed |-> TRUE, sub |-> s, issAud |-> TRUE, expired |-> TRUE]
MalformedToken == [wellFormed |-> FALSE, sub |-> NULL, issAud |-> FALSE, expired |-> FALSE]
Tokens == {GoodToken(s) : s \in Subs} \cup {ExpiredToken("sub1"), MalformedToken}

VARIABLES
  build,      \* which generation of the server runs
  users,      \* table users (legacy: the Supabase Auth users)
  profiles,   \* table user_profiles (legacy: profiles)
  surveys,    \* table surveys (legacy: survey_responses), by user_id
  customers,  \* Stripe customers
  req,        \* per slot: the request's inputs, position, locals and response
  calls,      \* number of requests accepted so far
  registered, \* emails for which a register call has answered 201
  visits,     \* table visits
  now,        \* the wall clock, in ticks of 30 minutes since a UTC midnight
  retry       \* the frame of a call of the retry utility

vars == <<build, users, profiles, surveys, customers, req, calls, registered, visits, now,
          retry>>

\* A list column that is null, and a list property missing from a request body.
NoList == <<"null">>
Absent == <<"undefined">>

\* store, vtype, purpose, ci, cj: inputs of the visit operations; visit: the
\* Visit created or addressed; at: the clock when the request arrived; seen:
\* the Visit ids that existed then; hist, counts, fav: what a read computed.
\* page: the page a history read asked for; recent: stats.recentVisits; sids,
\* cids: the Visit ids returned to the stats query and to the analytics query
\* of a membership card; charted: the analytics query has answered; industry,
\* jobType, purposes: the three charts; body: the message of the answer.
\* fx: what the call has written so far; prior: a register for the same email
\* had answered 201 before this call arrived; cause: the collaborator error
\* that ended the call ("unique": a uniqueness constraint refused its write,
\* "storage": another store write error, "payment": Stripe threw); decided: the status the handler had
\* settled on when it reached its best-effort LINE call; notif: how the last
\* best-effort LINE call of this request ended.
Idle ==
  [op |-> "none", pc |-> "idle", email |-> NULL, token |-> MalformedToken,
   line |-> NULL,
   user |-> 0, cust |-> 0, sub |-> NULL,
   status |-> 0, data |-> 0,
   fx |-> {}, prior |-> FALSE, cause |-> "none", decided |-> 0, notif |-> "none",
   store |-> NULL, visit |-> 0, at |-> 0, seen |-> {},
   vtype |-> NULL, purpose |-> NULL, ci |-> Absent, cj |-> Absent,
   hist |-> <<>>, counts |-> <<>>, fav |-> NULL,
   page |-> 1, recent |-> <<>>, sids |-> {}, cids |-> {}, charted |-> FALSE,
   industry |-> <<>>, jobType |-> <<>>, purposes |-> <<>>, body |-> NULL]

\* retry(fn, maxAttempts, delay): the arguments (given: FALSE when both are
\* left to their defaults), the loop counter attempt, lastError, and what the
\* call has done: invoked, the number of calls of fn; thrown, the errors fn
\* threw, in order; waits, the sleeps made, in order; result / error, what
\* the returned promise settled with.
NoRetry ==
  [pc |-> "none", given |-> FALSE, maxAttempts |-> 0, delay |-> 0, attempt |-> 0,
   lastError |-> NULL, invoked |-> 0, thrown |-> <<>>, waits |-> <<>>,
   result |-> NULL, error |-> NULL]

\* ------------------------------------------------------------- helpers
\* res.status(code).json(...): the handler's answer; nothing runs after it.
Respond(r, code, d) ==
  req' = [req EXCEPT ![r].pc = "done", ![r].status = code, ![r].data = d]

\* A collaborator call threw: the catch block answers 500 (AppError(.., 500)
\* and the generic branch alike).
Fail(r, why) ==
  req' = [req EXCEPT ![r].pc = "done", ![r].status = 500, ![r].cause = why]

\* db.getUserByEmail / db.getUserByLineId: .eq(...).single(), null when no row.
getUserByEmail(e) == {u \in users : u.email = e}
getUserByLineId(s) == {u \in users : u.line_user_id = s}

NextUserId == Cardinality(users) + 1
NextCustomerId == Cardinality(customers) + 1

\* A users table whose only unique column is email.
UserConstraintEmailOnly(row, others) ==
  \E u \in others : u.email = row.email

\* The store's constraints on users: email unique, line_user_id unique when set.
UserConstraintBroken(row, others) ==
  \E u \in others : u.email = row.email
                    \/ (row.line_user_id # NULL /\ u.line_user_id = row.line_user_id)

\* A slot takes the next request when its previous one has been answered;
\* the lower slot is used first.
Free(r) == req[r].pc \in {"idle", "done"}
Accepts(r) ==
  /\ Free(r)
  /\ calls < MaxCalls
  /\ \A q \in Reqs : q < r => ~Free(q)

Init ==
  /\ build \in Builds
  /\ users = {}
  /\ profiles = {}
  /\ surveys = {}
  /\ customers = {}
  /\ req = [r \in Reqs |-> Idle]
  /\ calls = 0
  /\ registered = {}
  /\ visits = {}
  /\ now = Start
  /\ retry = NoRetry

NewRegister(e, t) ==
  [Idle EXCEPT !.op = "register", !.email = e, !.token = t,
               !.prior = (e \in registered)]

NewLink(e, s) == [Idle EXCEPT !.op = "link", !.email = e, !.line = s]

\* --------------------------------------------- collaborators' write calls
\* stripeService.createCustomer: a new customer, or AppError(500) when Stripe throws.
createCustomer(r, nextpc) ==
  \/ LET id == NextCustomerId IN
       /\ customers' = customers \cup {[id |-> id, email |-> req[r].email, sub |-> req[r].sub]}
       /\ req' = [req EXCEPT ![r].pc = nextpc, ![r].cust = id,
                             ![r].fx = @ \cup {"customer"}]
  \/ /\ Fail(r, "payment")
     /\ UNCHANGED customers

\* db.createUser: insert into users; any store error becomes AppError(500).
createUser(r, lineUserId, nextpc) ==
  LET row == [id |-> NextUserId, email |-> req[r].email,
              line_user_id |-> lineUserId, stripe_customer_id |-> req[r].cust] IN
  IF UserConstraintBroken(row, users)
  THEN /\ req' = [req EXCEPT ![r].pc = "done", ![r].status = 500, ![r].cause = "unique"]
       /\ UNCHANGED users
  ELSE \/ /\ users' = users \cup {row}
          /\ req' = [req EXCEPT ![r].pc = nextpc, ![r].user = row.id,
                                ![r].fx = @ \cup {"user"}]
       \/ /\ Fail(r, "storage")
          /\ UNCHANGED users

\* createProfile with the store's error dropped instead of thrown: the handler
\* goes on to the survey as if the profile had been written.
createProfileErrorIgnored(r, nextpc) ==
  \/ /\ profiles' = profiles \cup {[user_id |-> req[r].user, line_user_id |-> NULL,
                                    stripe_customer_id |-> 0]}
     /\ req' = [req EXCEPT ![r].pc = nextpc, ![r].fx = @ \cup {"profile"}]
  \/ /\ req' = [req EXCEPT ![r].pc = nextpc, ![r].cause = "storage"]
     /\ UNCHANGED profiles

\* db.createProfile / db.createUserProfile: insert into user_profiles.
createProfile(r, nextpc) ==
  \/ /\ profiles' = profiles \cup {[user_id |-> req[r].user, line_user_id |-> NULL,
                                    stripe_customer_id |-> 0]}
     /\ req' = [req EXCEPT ![r].pc = nextpc, ![r].fx = @ \cup {"profile"}]
  \/ /\ Fail(r, "storage")
     /\ UNCHANGED profiles

\* db.createSurvey, then res.status(201) with the Stripe customer id.
createSurvey(r) ==
  \/ /\ surveys' = surveys \cup {req[r].user}
     /\ req' = [req EXCEPT ![r].pc = "done", ![r].status = 201, ![r].data = req[r].cust,
                           ![r].fx = @ \cup {"survey"}]
     /\ registered' = registered \cup {req[r].email}
  \/ /\ Fail(r, "storage")
     /\ UNCHANGED <<surveys, registered>>

\* ------------------------------------------------- register, build "v2"
\* lineService.verifyIdToken: the payload, or null.
verifyIdToken(t) ==
  IF t.wellFormed /\ t.sub # NULL /\ t.issAud /\ ~t.expired THEN t.sub ELSE NULL

\* POST /register up to its first store call: the body check,
\* validateRegistrationData, verifyIdToken.
V2Register(r) ==
  /\ build = "v2"
  /\ Accepts(r)
  /\ \E e \in Emails, t \in Tokens, p \in Payloads :
       req' = [req EXCEPT ![r] =
         IF p # "complete" THEN [NewRegister(e, t) EXCEPT !.pc = "done", !.status = 400]
         ELSE IF verifyIdToken(t) = NULL
              THEN [NewRegister(e, t) EXCEPT !.pc = "done", !.status = 401]
         ELSE [NewRegister(e, t) EXCEPT !.pc = "lookup", !.sub = verifyIdToken(t)]]
  /\ calls' = calls + 1
  /\ UNCHANGED <<retry, visits, now, build, users, profiles, surveys, customers, registered>>

V2RegisterLookup(r) ==
  /\ build = "v2"
  /\ req[r].op = "register" /\ req[r].pc = "lookup"
  /\ IF getUserByEmail(req[r].email) # {} THEN Respond(r, 409, 0)
     ELSE req' = [req EXCEPT ![r].pc = "stripe"]
  /\ UNCHANGED <<retry, visits, now, build, users, profiles, surveys, customers, calls, registered>>

V2RegisterStripe(r) ==
  /\ build = "v2"
  /\ req[r].op = "register" /\ req[r].pc = "stripe"
  /\ createCustomer(r, "createUser")
  /\ UNCHANGED <<retry, visits, now, build, users, profiles, surveys, calls, registered>>

\* userData carries line_user_id: lineProfile.sub
V2RegisterCreateUser(r) ==
  /\ build = "v2"
  /\ req[r].op = "register" /\ req[r].pc = "createUser"
  /\ createUser(r, req[r].sub, "createProfile")
  /\ UNCHANGED <<retry, visits, now, build, profiles, surveys, customers, calls, registered>>

V2RegisterCreateProfile(r) ==
  /\ build = "v2"
  /\ req[r].op = "register" /\ req[r].pc = "createProfile"
  /\ createProfile(r, "createSurvey")
  /\ UNCHANGED <<retry, visits, now, build, users, surveys, customers, calls, registered>>

V2RegisterCreateSurvey(r) ==
  /\ build = "v2"
  /\ req[r].op = "register" /\ req[r].pc = "createSurvey"
  /\ createSurvey(r)
  /\ UNCHANGED <<retry, visits, now, build, users, profiles, customers, calls>>

\* ------------------------------------------------- register, build "v1"
\* utils parseLineIdToken: the decoded payload, null ("none" here) when the
\* token does not parse; neither the signature nor exp is looked at.
parseLineIdToken(t) == IF t.wellFormed THEN t.sub ELSE "none"

\* POST /register up to its first store call: the body check,
\* validateRegistrationData, parseLineIdToken (its result is not checked).
V1Register(r) ==
  /\ build = "v1"
  /\ Accepts(r)
  /\ \E e \in Emails, t \in Tokens, p \in Payloads :
       req' = [req EXCEPT ![r] =
         IF p # "complete" THEN [NewRegister(e, t) EXCEPT !.pc = "done", !.status = 400]
         ELSE [NewRegister(e, t) EXCEPT !.pc = "lookup", !.sub = parseLineIdToken(t)]]
  /\ calls' = calls + 1
  /\ UNCHANGED <<retry, visits, now, build, users, profiles, surveys, customers, registered>>

\* getUserByEmail; then the arguments of createCustomer are evaluated, and
\* lineProfile.name on a null lineProfile throws a TypeError (generic 500).
V1RegisterLookup(r) ==
  /\ build = "v1"
  /\ req[r].op = "register" /\ req[r].pc = "lookup"
  /\ IF getUserByEmail(req[r].email) # {} THEN Respond(r, 409, 0)
     ELSE IF req[r].sub = "none" THEN Respond(r, 500, 0)
     ELSE req' = [req EXCEPT ![r].pc = "stripe"]
  /\ UNCHANGED <<retry, visits, now, build, users, profiles, surveys, customers, calls, registered>>

V1RegisterStripe(r) ==
  /\ build = "v1"
  /\ req[r].op = "register" /\ req[r].pc = "stripe"
  /\ createCustomer(r, "createUser")
  /\ UNCHANGED <<retry, visits, now, build, users, profiles, surveys, calls, registered>>

\* db.createUser({email, phone, gender, birth_date, stripe_customer_id}):
\* no line_user_id is passed.
V1RegisterCreateUser(r) ==
  /\ build = "v1"
  /\ req[r].op = "register" /\ req[r].pc = "createUser"
  /\ createUser(r, NULL, "createProfile")
  /\ UNCHANGED <<retry, visits, now, build, profiles, surveys, customers, calls, registered>>

V1RegisterCreateProfile(r) ==
  /\ build = "v1"
  /\ req[r].op = "register" /\ req[r].pc = "createProfile"
  /\ createProfile(r, "createSurvey")
  /\ UNCHANGED <<retry, visits, now, build, users, surveys, customers, calls, registered>>

V1RegisterCreateSurvey(r) ==
  /\ build = "v1"
  /\ req[r].op = "register" /\ req[r].pc = "createSurvey"
  /\ createSurvey(r)
  /\ UNCHANGED <<retry, visits, now, build, users, profiles, customers, calls>>

\* --------------------------------------------- register, build "legacy"
\* POST https://api.line.me/oauth2/v2.1/verify: LINE answers with the payload
\* for a signed, unexpired token of this channel, and with an error otherwise.
lineVerifyEndpoint(t) ==
  IF t.wellFormed /\ t.sub # NULL /\ t.issAud /\ ~t.expired THEN t.sub ELSE NULL

\* app.post("/api/register") up to its first store call: the body check and
\* the token verification (axios throws on LINE's error answer: 500).
LegacyRegister(r) ==
  /\ build = "legacy"
  /\ Accepts(r)
  /\ \E e \in Emails, t \in Tokens, p \in Payloads :
       req' = [req EXCEPT ![r] =
         IF p = "missing" THEN [NewRegister(e, t) EXCEPT !.pc = "done", !.status = 400]
         ELSE IF lineVerifyEndpoint(t) = NULL
              THEN [NewRegister(e, t) EXCEPT !.pc = "done", !.status = 500]
         ELSE [NewRegister(e, t) EXCEPT !.pc = "listUsers", !.sub = lineVerifyEndpoint(t)]]
  /\ calls' = calls + 1
  /\ UNCHANGED <<retry, visits, now, build, users, profiles, surveys, customers, registered>>

\* supabase.auth.admin.listUsers({email}): an existing user is taken over.
LegacyRegisterListUsers(r) ==
  /\ build = "legacy"
  /\ req[r].op = "register" /\ req[r].pc = "listUsers"
  /\ LET found == getUserByEmail(req[r].email) IN
       IF found # {}
       THEN req' = [req EXCEPT ![r].pc = "stripe", ![r].user = (CHOOSE u \in found : TRUE).id]
       ELSE req' = [req EXCEPT ![r].pc = "authCreate"]
  /\ UNCHANGED <<retry, visits, now, build, users, profiles, surveys, customers, calls, registered>>

\* supabase.auth.admin.createUser({email, ...}); createError is thrown (500).
LegacyRegisterAuthCreate(r) ==
  /\ build = "legacy"
  /\ req[r].op = "register" /\ req[r].pc = "authCreate"
  /\ LET row == [id |-> NextUserId, email |-> req[r].email,
                 line_user_id |-> NULL, stripe_customer_id |-> 0] IN
       IF UserConstraintBroken(row, users)
       THEN /\ req' = [req EXCEPT ![r].pc = "done", ![r].status = 500, ![r].cause = "unique"]
            /\ UNCHANGED users
       ELSE \/ /\ users' = users \cup {row}
               /\ req' = [req EXCEPT ![r].pc = "stripe", ![r].user = row.id,
                                     ![r].fx = @ \cup {"user"}]
            \/ /\ Fail(r, "storage")
               /\ UNCHANGED users
  /\ UNCHANGED <<retry, visits, now, build, profiles, surveys, customers, calls, registered>>

\* stripe.customers.create; a throw is answered with 500.
LegacyRegisterStripe(r) ==
  /\ build = "legacy"
  /\ req[r].op = "register" /\ req[r].pc = "stripe"
  /\ createCustomer(r, "upsertProfile")
  /\ UNCHANGED <<retry, visits, now, build, users, profiles, surveys, calls, registered>>

\* supabase.from("profiles").upsert({id, line_user_id, stripe_customer_id, ...}):
\* the returned {error} is not looked at.
LegacyRegisterUpsertProfile(r) ==
  /\ build = "legacy"
  /\ req[r].op = "register" /\ req[r].pc = "upsertProfile"
  /\ \/ /\ profiles' = {p \in profiles : p.user_id # req[r].user}
                         \cup {[user_id |-> req[r].user, line_user_id |-> req[r].sub,
                                stripe_customer_id |-> req[r].cust]}
        /\ req' = [req EXCEPT ![r].pc = "upsertSurvey", ![r].fx = @ \cup {"profile"}]
     \/ /\ req' = [req EXCEPT ![r].pc = "upsertSurvey"]
        /\ UNCHANGED profiles
  /\ UNCHANGED <<retry, visits, now, build, users, surveys, customers, calls, registered>>

\* supabase.from("survey_responses").upsert(..., {onConflict: "user_id"}):
\* the returned {error} is not looked at.
LegacyRegisterUpsertSurvey(r) ==
  /\ build = "legacy"
  /\ req[r].op = "register" /\ req[r].pc = "upsertSurvey"
  /\ \/ /\ surveys' = surveys \cup {req[r].user}
        /\ req' = [req EXCEPT ![r].pc = "push", ![r].decided = 201,
                              ![r].fx = @ \cup {"survey"}]
     \/ /\ req' = [req EXCEPT ![r].pc = "push", ![r].decided = 201]
        /\ UNCHANGED surveys
  /\ UNCHANGED <<retry, visits, now, build, users, profiles, customers, calls, registered>>

\* await lineClient.pushMessage(...) inside try/catch, then res.status(201).
LegacyRegisterPush(r) ==
  /\ build = "legacy"
  /\ req[r].op = "register" /\ req[r].pc = "push"
  /\ \/ \E outcome \in {"ok", "fail"} :
          /\ req' = [req EXCEPT ![r].pc = "done", ![r].status = 201,
                                ![r].data = req[r].cust, ![r].notif = outcome]
          /\ registered' = registered \cup {req[r].email}
     \/ /\ req' = [req EXCEPT ![r].pc = "hung", ![r].notif = "hang"]
        /\ UNCHANGED registered
  /\ UNCHANGED <<retry, visits, now, build, users, profiles, surveys, customers, calls>>

\* ------------------------------------------------------ link-line-account
\* db.linkLineAccount, first await: getUserByEmail, AppError(404) when absent.
linkLineAccountLookup(r) ==
  LET found == getUserByEmail(req[r].email) IN
    IF found = {} THEN Respond(r, 404, 0)
    ELSE req' = [req EXCEPT ![r].pc = "update", ![r].user = (CHOOSE u \in found : TRUE).id]

\* db.linkLineAccount, second await: updateUser(user.id, {line_user_id});
\* any store error becomes AppError(500).
updateUser(r, after) ==
  LET old == CHOOSE u \in users : u.id = req[r].user
      row == [old EXCEPT !.line_user_id = req[r].line] IN
  IF UserConstraintBroken(row, users \ {old})
  THEN /\ req' = [req EXCEPT ![r].pc = "done", ![r].status = 500, ![r].cause = "unique"]
       /\ UNCHANGED users
  ELSE \/ /\ users' = (users \ {old}) \cup {row}
          /\ req' = [req EXCEPT ![r] = [after EXCEPT !.fx = @ \cup {"user"}]]
       \/ /\ Fail(r, "storage")
          /\ UNCHANGED users

\* build "v1": the body check, then getUserByEmail (404 when absent).
V1Link(r) ==
  /\ build = "v1"
  /\ Accepts(r)
  /\ \E e \in Emails, s \in Subs \cup {NULL} :
       LET found == getUserByEmail(e) IN
       req' = [req EXCEPT ![r] =
         IF s = NULL THEN [NewLink(e, s) EXCEPT !.pc = "done", !.status = 400]
         ELSE IF found = {} THEN [NewLink(e, s) EXCEPT !.pc = "done", !.status = 404]
         ELSE [NewLink(e, s) EXCEPT !.pc = "getByLine",
                                    !.user = (CHOOSE u \in found : TRUE).id]]
  /\ calls' = calls + 1
  /\ UNCHANGED <<retry, visits, now, build, users, profiles, surveys, customers, registered>>

\* getUserByLineId: 409 when the LINE id is linked to another user.
V1LinkGetUserByLineId(r) ==
  /\ build = "v1"
  /\ req[r].op = "link" /\ req[r].pc = "getByLine"
  /\ IF \E u \in getUserByLineId(req[r].line) : u.id # req[r].user
     THEN Respond(r, 409, 0)
     ELSE req' = [req EXCEPT ![r].pc = "link"]
  /\ UNCHANGED <<retry, visits, now, build, users, profiles, surveys, customers, calls, registered>>

V1LinkLookup(r) ==
  /\ build = "v1"
  /\ req[r].op = "link" /\ req[r].pc = "link"
  /\ linkLineAccountLookup(r)
  /\ UNCHANGED <<retry, visits, now, build, users, profiles, surveys, customers, calls, registered>>

V1LinkUpdate(r) ==
  /\ build = "v1"
  /\ req[r].op = "link" /\ req[r].pc = "update"
  /\ updateUser(r, [req[r] EXCEPT !.pc = "richMenu", !.decided = 200])
  /\ UNCHANGED <<retry, visits, now, build, profiles, surveys, customers, calls, registered>>

\* await lineService.setUserRichMenu(...) inside try/catch
V1LinkRichMenu(r) ==
  /\ build = "v1"
  /\ req[r].op = "link" /\ req[r].pc = "richMenu"
  /\ \/ \E outcome \in {"ok", "fail"} :
          req' = [req EXCEPT ![r].pc = "welcome", ![r].notif = outcome]
     \/ req' = [req EXCEPT ![r].pc = "hung", ![r].notif = "hang"]
  /\ UNCHANGED <<retry, visits, now, build, users, profiles, surveys, customers, calls, registered>>

\* await lineService.sendWelcomeMessage(...) inside try/catch, then res.json
V1LinkWelcome(r) ==
  /\ build = "v1"
  /\ req[r].op = "link" /\ req[r].pc = "welcome"
  /\ \/ \E outcome \in {"ok", "fail"} :
          req' = [req EXCEPT ![r].pc = "done", ![r].status = 200,
                             ![r].data = req[r].user, ![r].notif = outcome]
     \/ req' = [req EXCEPT ![r].pc = "hung", ![r].notif = "hang"]
  /\ UNCHANGED <<retry, visits, now, build, users, profiles, surveys, customers, calls, registered>>

\* build "v2": the body check, then getUserByLineId (409 when anyone holds the id).
V2Link(r) ==
  /\ build = "v2"
  /\ Accepts(r)
  /\ \E e \in Emails, s \in Subs \cup {NULL} :
       req' = [req EXCEPT ![r] =
         IF s = NULL THEN [NewLink(e, s) EXCEPT !.pc = "done", !.status = 400]
         ELSE IF getUserByLineId(s) # {} THEN [NewLink(e, s) EXCEPT !.pc = "done", !.status = 409]
         ELSE [NewLink(e, s) EXCEPT !.pc = "link"]]
  /\ calls' = calls + 1
  /\ UNCHANGED <<retry, visits, now, build, users, profiles, surveys, customers, registered>>

V2LinkLookup(r) ==
  /\ build = "v2"
  /\ req[r].op = "link" /\ req[r].pc = "link"
  /\ linkLineAccountLookup(r)
  /\ UNCHANGED <<retry, visits, now, build, users, profiles, surveys, customers, calls, registered>>

V2LinkUpdate(r) ==
  /\ build = "v2"
  /\ req[r].op = "link" /\ req[r].pc = "update"
  /\ updateUser(r, [req[r] EXCEPT !.pc = "done", !.status = 200, !.data = req[r].user])
  /\ UNCHANGED <<retry, visits, now, build, profiles, surveys, customers, calls, registered>>

\* build "legacy": the body check, then await lineClient.linkRichMenuToUser;
\* a throw is answered with 500.  The store is not touched.
LegacyLink(r) ==
  /\ build = "legacy"
  /\ Accepts(r)
  /\ \E e \in Emails, s \in Subs \cup {NULL} :
       req' = [req EXCEPT ![r] =
         IF s = NULL THEN [NewLink(e, s) EXCEPT !.pc = "done", !.status = 400]
         ELSE [NewLink(e, s) EXCEPT !.pc = "richMenu"]]
  /\ calls' = calls + 1
  /\ UNCHANGED <<retry, visits, now, build, users, profiles, surveys, customers, registered>>

LegacyLinkRichMenu(r) ==
  /\ build = "legacy"
  /\ req[r].op = "link" /\ req[r].pc = "richMenu"
  /\ \/ req' = [req EXCEPT ![r].pc = "done", ![r].status = 200, ![r].notif = "ok"]
     \/ req' = [req EXCEPT ![r].pc = "done", ![r].status = 500, ![r].notif = "fail"]
     \/ req' = [req EXCEPT ![r].pc = "hung", ![r].notif = "hang"]
  /\ UNCHANGED <<retry, visits, now, build, users, profiles, surveys, customers, calls, registered>>

\* ---------------------------------------------------------------- system
Next ==
  \E r \in Reqs :
    \/ V2Register(r)
    \/ V2RegisterLookup(r)
    \/ V2RegisterStripe(r)
    \/ V2RegisterCreateUser(r)
    \/ V2RegisterCreateProfile(r)
    \/ V2RegisterCreateSurvey(r)
    \/ V1Register(r)
    \/ V1RegisterLookup(r)
    \/ V1RegisterStripe(r)
    \/ V1RegisterCreateUser(r)
    \/ V1RegisterCreateProfile(r)
    \/ V1RegisterCreateSurvey(r)
    \/ LegacyRegister(r)
    \/ LegacyRegisterListUsers(r)
    \/ LegacyRegisterAuthCreate(r)
    \/ LegacyRegisterStripe(r)
    \/ LegacyRegisterUpsertProfile(r)
    \/ LegacyRegisterUpsertSurvey(r)
    \/ LegacyRegisterPush(r)
    \/ V1Link(r)
    \/ V1LinkGetUserByLineId(r)
    \/ V1LinkLookup(r)
    \/ V1LinkUpdate(r)
    \/ V1LinkRichMenu(r)
    \/ V1LinkWelcome(r)
    \/ V2Link(r)
    \/ V2LinkLookup(r)
    \/ V2LinkUpdate(r)
    \/ LegacyLink(r)
    \/ LegacyLinkRichMenu(r)

Spec == Init /\ [][Next]_vars

\* ================================================================ visits
\* Check-in, visit survey, visit history and membership card, over the tables
\* users, profiles, stores and visits.

\* The duplicate window of the rate-limited check-in (60 * 60 * 1000 ms) and a
\* UTC calendar day, both in ticks of 30 minutes.
Window == 2
DayTicks == 48

Stores == {[id |-> "store1", name |-> "Shibuya"], [id |-> "store2", name |-> "Ueno"]}
StoreIds == {"store1", "store2", "store9"}
\* lineUserId of a request; NULL: the property is missing.
LineIds == Subs \cup {NULL}
\* visitId of a survey request; 0: a required property is missing.
VisitIds == {0, 1, 2}
\* The radio value the client sends for a visit alone, and another one.
SingleLabel == "hitori desu"
GroupLabel == "fukusuu desu"
VisitTypes == {SingleLabel, GroupLabel}
Purposes == {"work", "meet"}
Companions ==
  {[ci |-> Absent, cj |-> Absent],
   [ci |-> <<>>, cj |-> <<>>],
   [ci |-> <<"IT">>, cj |-> <<"engineer">>]}

Day(t) == t \div DayTicks

getStoreById(s) == {st \in Stores : st.id = s}
getVisitById(id) == {v \in visits : v.id = id}
\* visit.stores?.name || fallback: the joined store's name.
StoreNameOr(s, fallback) ==
  IF getStoreById(s) = {} THEN fallback ELSE (CHOOSE st \in getStoreById(s) : TRUE).name
NextVisitId == Cardinality(visits) + 1

\* .order('check_in_at', {ascending: false}); two visits of one tick are
\* ordered by their creation, the later one first.
RECURSIVE OrderedVisits(_)
OrderedVisits(S) ==
  IF S = {} THEN <<>>
  ELSE LET v == CHOOSE x \in S : \A y \in S :
                  \/ x.check_in_at > y.check_in_at
                  \/ (x.check_in_at = y.check_in_at /\ x.id >= y.id)
       IN <<v>> \o OrderedVisits(S \ {v})

\* A read that leaves out .eq('user_id', userId).
getVisitsOfAnyUser(u, limit) ==
  LET all == OrderedVisits(visits) IN
    SubSeq(all, 1, IF Len(all) < limit THEN Len(all) ELSE limit)

\* services/databse.ts getVisitsByUserId(userId, {limit, offset}): .limit(limit),
\* and .range(offset, offset + limit - 1) when offset is not 0.
getVisitsByUserIdPage(u, limit, offset) ==
  LET all == OrderedVisits({v \in visits : v.user_id = u})
      last == IF Len(all) < offset + limit THEN Len(all) ELSE offset + limit
  IN SubSeq(all, offset + 1, last)

\* services/line.ts getVisitsByUserId(userId, limit = 50)
getVisitsByUserIdLimit(u, limit) ==
  LET all == OrderedVisits({v \in visits : v.user_id = u}) IN
    SubSeq(all, 1, IF Len(all) < limit THEN Len(all) ELSE limit)

\* services/databse.ts getVisitsByUserId(userId, {dateFrom, dateTo})
getVisitsByUserIdRange(u, dateFrom, dateTo) ==
  OrderedVisits({v \in visits : /\ v.user_id = u
                                /\ dateFrom <= v.check_in_at
                                /\ v.check_in_at <= dateTo})

\* The foreign keys of table visits: a Visit references an existing User and Store.
VisitConstraintBroken(row) ==
  \/ getStoreById(row.store_id) = {}
  \/ ~ \E u \in users : u.id = row.user_id

NewCheckIn(l, s) ==
  [Idle EXCEPT !.op = "checkin", !.line = l, !.store = s, !.at = now,
               !.seen = {v.id : v \in visits}]

NewSurvey(id, t, p, c) ==
  [Idle EXCEPT !.op = "survey", !.visit = id, !.vtype = t, !.purpose = p,
               !.ci = c.ci, !.cj = c.cj, !.at = now, !.seen = {v.id : v \in visits}]

NewRead(o, l) == [Idle EXCEPT !.op = o, !.line = l, !.at = now]

\* A createVisit that fills the survey columns at check-in.
createVisitPrefilled(r) ==
  LET row == [id |-> NextVisitId, user_id |-> req[r].user, store_id |-> req[r].store,
              check_in_at |-> now, visit_type |-> "single", visit_purpose |-> NULL,
              companion_industries |-> NoList, companion_job_types |-> NoList] IN
  IF VisitConstraintBroken(row)
  THEN /\ req' = [req EXCEPT ![r].pc = "done", ![r].status = 500, ![r].cause = "fk"]
       /\ UNCHANGED visits
  ELSE \/ /\ visits' = visits \cup {row}
          /\ req' = [req EXCEPT ![r].pc = "done", ![r].status = 201, ![r].data = row.id,
                                ![r].visit = row.id, ![r].fx = @ \cup {"visit"}]
       \/ /\ Fail(r, "storage")
          /\ UNCHANGED visits

\* db.createVisit({user_id, store_id, check_in_at}) and the 201 with the new
\* id; a store error becomes a 500.
createVisit(r) ==
  LET row == [id |-> NextVisitId, user_id |-> req[r].user, store_id |-> req[r].store,
              check_in_at |-> now, visit_type |-> NULL, visit_purpose |-> NULL,
              companion_industries |-> NoList, companion_job_types |-> NoList] IN
  IF VisitConstraintBroken(row)
  THEN /\ req' = [req EXCEPT ![r].pc = "done", ![r].status = 500, ![r].cause = "fk"]
       /\ UNCHANGED visits
  ELSE \/ /\ visits' = visits \cup {row}
          /\ req' = [req EXCEPT ![r].pc = "done", ![r].status = 201, ![r].data = row.id,
                                ![r].visit = row.id, ![r].fx = @ \cup {"visit"}]
       \/ /\ Fail(r, "storage")
          /\ UNCHANGED visits

\* ------------------------------------------- check-in, builds "v1", "v2"
\* POST /check-in: the body check, getUserByLineId and getStoreById (users
\* and stores are written by no visit operation, so both reads are taken at
\* the arrival).
CheckIn(r) ==
  /\ build \in {"v1", "v2"}
  /\ Accepts(r)
  /\ \E l \in LineIds, s \in StoreIds :
       req' = [req EXCEPT ![r] =
         IF l = NULL THEN [NewCheckIn(l, s) EXCEPT !.pc = "done", !.status = 400]
         ELSE IF getUserByLineId(l) = {} \/ getStoreById(s) = {}
              THEN [NewCheckIn(l, s) EXCEPT !.pc = "done", !.status = 404]
         ELSE [NewCheckIn(l, s) EXCEPT !.pc = "getVisits",
                                       !.user = (CHOOSE u \in getUserByLineId(l) : TRUE).id]]
  /\ calls' = calls + 1
  /\ UNCHANGED <<retry, build, users, profiles, surveys, customers, registered, visits, now>>

\* routes/user.ts: the visits of today's UTC date, then find by store_id.
V1CheckInGetVisits(r) ==
  /\ build = "v1"
  /\ req[r].op = "checkin" /\ req[r].pc = "getVisits"
  /\ LET today == Day(now)
         existingVisits == getVisitsByUserIdRange(req[r].user, today * DayTicks,
                                                  today * DayTicks + DayTicks - 1) IN
       IF \E i \in 1..Len(existingVisits) : existingVisits[i].store_id = req[r].store
       THEN Respond(r, 409, 0)
       ELSE req' = [req EXCEPT ![r].pc = "create"]
  /\ UNCHANGED <<retry, build, users, profiles, surveys, customers, calls, registered, visits, now>>

\* part_007: getVisitsByUserId(user.id, 1), then find by store_id within the
\* last hour.
V2CheckInGetVisits(r) ==
  /\ build = "v2"
  /\ req[r].op = "checkin" /\ req[r].pc = "getVisits"
  /\ LET recentVisits == getVisitsByUserIdLimit(req[r].user, 1)
         oneHourAgo == now - Window IN
       IF \E i \in 1..Len(recentVisits) :
            /\ recentVisits[i].store_id = req[r].store
            /\ recentVisits[i].check_in_at > oneHourAgo
       THEN Respond(r, 409, 0)
       ELSE req' = [req EXCEPT ![r].pc = "create"]
  /\ UNCHANGED <<retry, build, users, profiles, surveys, customers, calls, registered, visits, now>>

\* db.createVisit, then the 201 (routes/user.ts starts its notification
\* without awaiting it).
CheckInCreateVisit(r) ==
  /\ build \in {"v1", "v2"}
  /\ req[r].op = "checkin" /\ req[r].pc = "create"
  /\ createVisit(r)
  /\ UNCHANGED <<retry, build, users, profiles, surveys, customers, calls, registered, now>>

\* ---------------------------------------------- check-in, build "legacy"
\* app.post("/api/check-in"): the body check and the profile by line_user_id
\* (.single()); no profile is thrown and answered 500. The store is not read.
LegacyCheckIn(r) ==
  /\ build = "legacy"
  /\ Accepts(r)
  /\ \E l \in LineIds, s \in StoreIds :
       LET found == {p \in profiles : p.line_user_id = l} IN
       req' = [req EXCEPT ![r] =
         IF l = NULL THEN [NewCheckIn(l, s) EXCEPT !.pc = "done", !.status = 400]
         ELSE IF Cardinality(found) # 1
              THEN [NewCheckIn(l, s) EXCEPT !.pc = "done", !.status = 500]
         ELSE [NewCheckIn(l, s) EXCEPT !.pc = "create",
                                       !.user = (CHOOSE p \in found : TRUE).user_id]]
  /\ calls' = calls + 1
  /\ UNCHANGED <<retry, build, users, profiles, surveys, customers, registered, visits, now>>

\* supabase.from("visits").insert({user_id, store_id}); visitError is thrown.
LegacyCheckInInsert(r) ==
  /\ build = "legacy"
  /\ req[r].op = "checkin" /\ req[r].pc = "create"
  /\ createVisit(r)
  /\ UNCHANGED <<retry, build, users, profiles, surveys, customers, calls, registered, now>>

\* ---------------------------------------------------- check-in, build "js"
\* app.post('/api/check-in') of the service-based server: the body check and
\* getUserIdByLineUserId (AppError 404 when no single profile has the id).
JsCheckIn(r) ==
  /\ build = "js"
  /\ Accepts(r)
  /\ \E l \in LineIds, s \in StoreIds :
       LET found == {p \in profiles : p.line_user_id = l} IN
       req' = [req EXCEPT ![r] =
         IF l = NULL THEN [NewCheckIn(l, s) EXCEPT !.pc = "done", !.status = 400]
         ELSE IF Cardinality(found) # 1
              THEN [NewCheckIn(l, s) EXCEPT !.pc = "done", !.status = 404]
         ELSE [NewCheckIn(l, s) EXCEPT !.pc = "create",
                                       !.user = (CHOOSE p \in found : TRUE).user_id]]
  /\ calls' = calls + 1
  /\ UNCHANGED <<retry, build, users, profiles, surveys, customers, registered, visits, now>>

\* createVisitRecord(userId, storeId): insert, AppError 500 on any error.
JsCheckInCreateVisitRecord(r) ==
  /\ build = "js"
  /\ req[r].op = "checkin" /\ req[r].pc = "create"
  /\ createVisit(r)
  /\ UNCHANGED <<retry, build, users, profiles, surveys, customers, calls, registered, now>>

\* ------------------------------------------------------- visit survey
\* A handler that maps the type but writes the companion lists as passed.
surveyUpdatesCompanionsKept(t, p, ci, cj) ==
  [visit_type |-> IF t = SingleLabel THEN "single" ELSE "group",
   visit_purpose |-> p,
   companion_industries |-> ci,
   companion_job_types |-> cj]

\* What the handler writes: the type from the radio value, and the companion
\* lists emptied for a visit alone.
surveyUpdates(t, p, ci, cj) ==
  [visit_type |-> IF t = SingleLabel THEN "single" ELSE "group",
   visit_purpose |-> p,
   companion_industries |-> IF t = SingleLabel THEN <<>> ELSE ci,
   companion_job_types |-> IF t = SingleLabel THEN <<>> ELSE cj]

\* The legacy handler writes the request's values as they came.
surveyData(t, p, ci, cj) ==
  [visit_type |-> t, visit_purpose |-> p,
   companion_industries |-> ci, companion_job_types |-> cj]

\* The service-based server writes the values as they came, a missing list
\* as [] (companionIndustries || []).
surveyDataOrEmpty(t, p, ci, cj) ==
  [visit_type |-> t, visit_purpose |-> p,
   companion_industries |-> IF ci = Absent THEN <<>> ELSE ci,
   companion_job_types |-> IF cj = Absent THEN <<>> ELSE cj]

\* supabase .update(updates).eq('id', visitId): a property that is undefined
\* is not part of the request sent to the store and its column stays.
ApplyUpdates(old, upd) ==
  [old EXCEPT !.visit_type = upd.visit_type,
              !.visit_purpose = upd.visit_purpose,
              !.companion_industries =
                 IF upd.companion_industries = Absent THEN @ ELSE upd.companion_industries,
              !.companion_job_types =
                 IF upd.companion_job_types = Absent THEN @ ELSE upd.companion_job_types]

\* db.updateVisit and the 200; a store error becomes a 500. No row: nothing
\* is written.
updateVisit(r, upd) ==
  \/ /\ visits' = {IF v.id = req[r].visit THEN ApplyUpdates(v, upd) ELSE v : v \in visits}
     /\ req' = [req EXCEPT ![r].pc = "done", ![r].status = 200, ![r].data = req[r].visit,
                           ![r].fx = IF getVisitById(req[r].visit) = {} THEN @
                                     ELSE @ \cup {"visit"}]
  \/ /\ Fail(r, "storage")
     /\ UNCHANGED visits

\* POST /submit-visit-survey: the check of the required properties.
SubmitVisitSurvey(r) ==
  /\ build \in {"v1", "v2"}
  /\ Accepts(r)
  /\ \E id \in VisitIds, t \in VisitTypes, p \in Purposes, c \in Companions :
       req' = [req EXCEPT ![r] =
         IF id = 0 THEN [NewSurvey(id, t, p, c) EXCEPT !.pc = "done", !.status = 400]
         ELSE [NewSurvey(id, t, p, c) EXCEPT !.pc = "getVisit"]]
  /\ calls' = calls + 1
  /\ UNCHANGED <<retry, build, users, profiles, surveys, customers, registered, visits, now>>

\* db.getVisitById: 404 when there is no such visit.
SubmitVisitSurveyGetVisit(r) ==
  /\ build \in {"v1", "v2"}
  /\ req[r].op = "survey" /\ req[r].pc = "getVisit"
  /\ IF getVisitById(req[r].visit) = {} THEN Respond(r, 404, 0)
     ELSE req' = [req EXCEPT ![r].pc = "update"]
  /\ UNCHANGED <<retry, build, users, profiles, surveys, customers, calls, registered, visits, now>>

SubmitVisitSurveyUpdate(r) ==
  /\ build \in {"v1", "v2"}
  /\ req[r].op = "survey" /\ req[r].pc = "update"
  /\ updateVisit(r, surveyUpdates(req[r].vtype, req[r].purpose, req[r].ci, req[r].cj))
  /\ UNCHANGED <<retry, build, users, profiles, surveys, customers, calls, registered, now>>

\* app.post("/api/submit-visit-survey"): only visitId is required.
LegacySubmitVisitSurvey(r) ==
  /\ build = "legacy"
  /\ Accepts(r)
  /\ \E id \in VisitIds, t \in VisitTypes, p \in Purposes, c \in Companions :
       req' = [req EXCEPT ![r] =
         IF id = 0 THEN [NewSurvey(id, t, p, c) EXCEPT !.pc = "done", !.status = 400]
         ELSE [NewSurvey(id, t, p, c) EXCEPT !.pc = "update"]]
  /\ calls' = calls + 1
  /\ UNCHANGED <<retry, build, users, profiles, surveys, customers, registered, visits, now>>

LegacySubmitVisitSurveyUpdate(r) ==
  /\ build = "legacy"
  /\ req[r].op = "survey" /\ req[r].pc = "update"
  /\ updateVisit(r, surveyData(req[r].vtype, req[r].purpose, req[r].ci, req[r].cj))
  /\ UNCHANGED <<retry, build, users, profiles, surveys, customers, calls, registered, now>>

\* app.post('/api/submit-visit-survey') of the service-based server: only
\* visitId is required.
JsSubmitVisitSurvey(r) ==
  /\ build = "js"
  /\ Accepts(r)
  /\ \E id \in VisitIds, t \in VisitTypes, p \in Purposes, c \in Companions :
       req' = [req EXCEPT ![r] =
         IF id = 0 THEN [NewSurvey(id, t, p, c) EXCEPT !.pc = "done", !.status = 400]
         ELSE [NewSurvey(id, t, p, c) EXCEPT !.pc = "update"]]
  /\ calls' = calls + 1
  /\ UNCHANGED <<retry, build, users, profiles, surveys, customers, registered, visits, now>>

\* updateVisitSurvey(visitId, surveyData) and the 200.
JsSubmitVisitSurveyUpdate(r) ==
  /\ build = "js"
  /\ req[r].op = "survey" /\ req[r].pc = "update"
  /\ updateVisit(r, surveyDataOrEmpty(req[r].vtype, req[r].purpose, req[r].ci, req[r].cj))
  /\ UNCHANGED <<retry, build, users, profiles, surveys, customers, calls, registered, now>>

\* ------------------------------------------------------ visit history
\* formattedVisits of GET /visit-history: null lists are shown empty.
formatVisit(v) ==
  [id |-> v.id, storeName |-> StoreNameOr(v.store_id, "unknown"),
   checkInAt |-> v.check_in_at,
   visitType |-> v.visit_type, visitPurpose |-> v.visit_purpose,
   companionIndustries |-> IF v.companion_industries = NoList THEN <<>>
                           ELSE v.companion_industries,
   companionJobTypes |-> IF v.companion_job_types = NoList THEN <<>>
                         ELSE v.companion_job_types]

\* GET /visit-history: the query check and getUserByLineId.
V2VisitHistory(r) ==
  /\ build = "v2"
  /\ Accepts(r)
  /\ \E l \in LineIds :
       req' = [req EXCEPT ![r] =
         IF l = NULL THEN [NewRead("history", l) EXCEPT !.pc = "done", !.status = 400]
         ELSE IF getUserByLineId(l) = {}
              THEN [NewRead("history", l) EXCEPT !.pc = "done", !.status = 404]
         ELSE [NewRead("history", l) EXCEPT
                 !.pc = "getVisits", !.user = (CHOOSE u \in getUserByLineId(l) : TRUE).id]]
  /\ calls' = calls + 1
  /\ UNCHANGED <<retry, build, users, profiles, surveys, customers, registered, visits, now>>

\* db.getVisitsByUserId(user.id) and the answer.
V2VisitHistoryRead(r) ==
  /\ build = "v2"
  /\ req[r].op = "history" /\ req[r].pc = "getVisits"
  /\ LET vs == getVisitsByUserIdLimit(req[r].user, 50) IN
       req' = [req EXCEPT ![r].pc = "done", ![r].status = 200,
                          ![r].hist = [i \in 1..Len(vs) |-> formatVisit(vs[i])]]
  /\ UNCHANGED <<retry, build, users, profiles, surveys, customers, calls, registered, visits, now>>

\* visitHistory of GET /visit-history in routes/user.ts.
formatVisitV1(v) ==
  [id |-> v.id, storeName |-> StoreNameOr(v.store_id, "unknown"),
   checkInAt |-> v.check_in_at,
   visitPurpose |-> v.visit_purpose, visitType |-> v.visit_type]

\* page of the query string; limit is left at its default.
Pages == {1, 2}

\* GET /visit-history of routes/user.ts: the query check and getUserByLineId.
V1VisitHistory(r) ==
  /\ build = "v1"
  /\ Accepts(r)
  /\ \E l \in LineIds, pg \in Pages :
       req' = [req EXCEPT ![r] =
         IF l = NULL
         THEN [NewRead("history", l) EXCEPT !.pc = "done", !.status = 400, !.page = pg]
         ELSE IF getUserByLineId(l) = {}
              THEN [NewRead("history", l) EXCEPT !.pc = "done", !.status = 404, !.page = pg]
         ELSE [NewRead("history", l) EXCEPT
                 !.pc = "getVisits", !.page = pg,
                 !.user = (CHOOSE u \in getUserByLineId(l) : TRUE).id]]
  /\ calls' = calls + 1
  /\ UNCHANGED <<retry, build, users, profiles, surveys, customers, registered, visits, now>>

\* limitNum = 50, offset = (pageNum - 1) * limitNum, db.getVisitsByUserId and
\* the answer.
V1VisitHistoryRead(r) ==
  /\ build = "v1"
  /\ req[r].op = "history" /\ req[r].pc = "getVisits"
  /\ LET vs == getVisitsByUserIdPage(req[r].user, 50, (req[r].page - 1) * 50) IN
       req' = [req EXCEPT ![r].pc = "done", ![r].status = 200,
                          ![r].hist = [i \in 1..Len(vs) |-> formatVisitV1(vs[i])]]
  /\ UNCHANGED <<retry, build, users, profiles, surveys, customers, calls, registered, visits, now>>

\* ---------------------------------------------------- membership card
\* A count that notes each key once and never increments it.
RECURSIVE countKeysOnce(_, _)
countKeysOnce(keys, acc) ==
  IF keys = <<>> THEN acc
  ELSE LET g == Head(keys) IN
       countKeysOnce(Tail(keys),
         IF \E i \in 1..Len(acc) : acc[i].key = g THEN acc
         ELSE Append(acc, [key |-> g, n |-> 1]))

\* acc[curr] = (acc[curr] || 0) + 1 for every key: the counts, as a list of
\* [key, n] in the order the keys first came.
RECURSIVE countKeys(_, _)
countKeys(keys, acc) ==
  IF keys = <<>> THEN acc
  ELSE LET g == Head(keys) IN
       countKeys(Tail(keys),
         IF \E i \in 1..Len(acc) : acc[i].key = g
         THEN [i \in 1..Len(acc) |->
                 IF acc[i].key = g THEN [key |-> g, n |-> acc[i].n + 1] ELSE acc[i]]
         ELSE Append(acc, [key |-> g, n |-> 1]))

\* utils countBy(array, key) / aggregateCounts(arr)
countBy(keys) == countKeys(keys, <<>>)
aggregateCounts(arr) == countKeys(arr, <<>>)

\* storeCounts[k]; -1 stands for undefined (it is greater than nothing).
CountOf(counts, k) ==
  IF \E i \in 1..Len(counts) : counts[i].key = k
  THEN counts[CHOOSE i \in 1..Len(counts) : counts[i].key = k].n
  ELSE -1

StoreName(id) == (CHOOSE st \in Stores : st.id = id).name

\* array.slice(0, n)
Slice(arr, n) == SubSeq(arr, 1, IF Len(arr) < n THEN Len(arr) ELSE n)

\* {date: visit.check_in_at, storeName: visit.stores?.name || 'Unknown Store'}
RecentVisit(v) == [date |-> v.check_in_at, storeName |-> StoreNameOr(v.store_id, "unknown")]

\* A reduce that keeps the key it met first whatever the counts.
reduceFavoriteFirstKey(counts, i, a) ==
  IF counts = <<>> THEN a ELSE counts[1].key

\* Object.keys(storeCounts).reduce((a, b) => storeCounts[a] > storeCounts[b] ? a : b, '')
RECURSIVE reduceFavorite(_, _, _)
reduceFavorite(counts, i, a) ==
  IF i > Len(counts) THEN a
  ELSE LET b == counts[i].key IN
       reduceFavorite(counts, i + 1, IF CountOf(counts, a) > CountOf(counts, b) THEN a ELSE b)

\* services/databse.ts getVisitStatsForUser: one query, newest first.
getVisitStatsForUser(u) ==
  LET visitsData == OrderedVisits({v \in visits : v.user_id = u})
      storeCounts == countBy([i \in 1..Len(visitsData) |-> visitsData[i].store_id])
      favoriteStoreId == reduceFavorite(storeCounts, 1, "")
      recentVisits == Slice(visitsData, 5)
  IN [totalVisits |-> Len(visitsData),
      storeCounts |-> storeCounts,
      favoriteStore |-> IF favoriteStoreId = "" THEN "N/A" ELSE StoreName(favoriteStoreId),
      recentVisits |-> [i \in 1..Len(recentVisits) |-> RecentVisit(recentVisits[i])],
      ids |-> {visitsData[i].id : i \in 1..Len(visitsData)}]

\* A flattening that takes only the first label of each visit's list.
RECURSIVE companionLabelsFirstOnly(_, _)
companionLabelsFirstOnly(vs, column) ==
  IF vs = <<>> THEN <<>>
  ELSE LET list == IF column = "industries" THEN Head(vs).companion_industries
                   ELSE Head(vs).companion_job_types
       IN (IF list = NoList \/ list = <<>> THEN <<>> ELSE <<Head(list)>>)
            \o companionLabelsFirstOnly(Tail(vs), column)

\* visits.flatMap(v => v.companion_industries || []), and the forEach over
\* every visit whose list is set: the labels of all visits, in order.
RECURSIVE companionLabels(_, _)
companionLabels(vs, column) ==
  IF vs = <<>> THEN <<>>
  ELSE LET list == IF column = "industries" THEN Head(vs).companion_industries
                   ELSE Head(vs).companion_job_types
       IN (IF list = NoList THEN <<>> ELSE list) \o companionLabels(Tail(vs), column)

\* A purpose list that keeps the null and empty purposes.
RECURSIVE visitPurposesUnfiltered(_)
visitPurposesUnfiltered(vs) ==
  IF vs = <<>> THEN <<>>
  ELSE <<Head(vs).visit_purpose>> \o visitPurposesUnfiltered(Tail(vs))

\* visits.map(v => v.visit_purpose).filter(Boolean), and the forEach guarded
\* by if (visit.visit_purpose): null and '' are dropped.
RECURSIVE visitPurposes(_)
visitPurposes(vs) ==
  IF vs = <<>> THEN <<>>
  ELSE (IF Head(vs).visit_purpose \in {NULL, ""} THEN <<>> ELSE <<Head(vs).visit_purpose>>)
         \o visitPurposes(Tail(vs))

\* services/databse.ts getVisitAnalyticsForUser: its own getVisitsByUserId
\* query, then the three frequency maps.
getVisitAnalyticsForUser(u) ==
  LET vs == OrderedVisits({v \in visits : v.user_id = u}) IN
    [companionIndustry |-> countKeys(companionLabels(vs, "industries"), <<>>),
     companionJobType |-> countKeys(companionLabels(vs, "jobTypes"), <<>>),
     visitPurpose |-> countKeys(visitPurposes(vs), <<>>),
     ids |-> {vs[i].id : i \in 1..Len(vs)}]

\* Object.keys(storeVisits).sort((a, b) => storeVisits[b] - storeVisits[a])[0]:
\* the first key, in the order the keys came, that has the greatest count.
sortFavorite(counts) ==
  IF counts = <<>> THEN "none"
  ELSE counts[CHOOSE i \in 1..Len(counts) :
                /\ \A j \in 1..Len(counts) : counts[j].n <= counts[i].n
                /\ \A j \in 1..(i - 1) : counts[j].n < counts[i].n].key

\* _aggregateVisitData over the one list of visits the handler read.
aggregateVisitData(u) ==
  LET vs == OrderedVisits({v \in visits : v.user_id = u})
      storeVisits == aggregateCounts([i \in 1..Len(vs) |-> StoreName(vs[i].store_id)])
      recentVisits == Slice(vs, 2)
  IN [totalVisits |-> Len(vs),
      storeCounts |-> storeVisits,
      favoriteStore |-> sortFavorite(storeVisits),
      recentVisits |-> [i \in 1..Len(recentVisits) |-> RecentVisit(recentVisits[i])],
      companionIndustry |-> aggregateCounts(companionLabels(vs, "industries")),
      companionJobType |-> aggregateCounts(companionLabels(vs, "jobTypes")),
      visitPurpose |-> aggregateCounts(visitPurposes(vs)),
      ids |-> {vs[i].id : i \in 1..Len(vs)}]

\* GET /membership-card of routes/user.ts: the query check, and
\* getMembershipCardData's getUserByLineId (null: 404).
V1MembershipCard(r) ==
  /\ build = "v1"
  /\ Accepts(r)
  /\ \E l \in LineIds :
       req' = [req EXCEPT ![r] =
         IF l = NULL THEN [NewRead("card", l) EXCEPT !.pc = "done", !.status = 400]
         ELSE IF getUserByLineId(l) = {}
              THEN [NewRead("card", l) EXCEPT !.pc = "done", !.status = 404]
         ELSE [NewRead("card", l) EXCEPT
                 !.pc = "stats", !.user = (CHOOSE u \in getUserByLineId(l) : TRUE).id]]
  /\ calls' = calls + 1
  /\ UNCHANGED <<retry, build, users, profiles, surveys, customers, registered, visits, now>>

\* getMembershipCardData's Promise.all starts getVisitStatsForUser and
\* getVisitAnalyticsForUser together; each sends its own query, and the two
\* queries are answered in either order. This is the stats query.
V1MembershipCardStats(r) ==
  /\ build = "v1"
  /\ req[r].op = "card" /\ req[r].pc = "stats"
  /\ LET stats == getVisitStatsForUser(req[r].user) IN
       req' = [req EXCEPT ![r].pc = IF req[r].charted THEN "lineProfile" ELSE "analytics",
                          ![r].decided = 200,
                          ![r].data = stats.totalVisits,
                          ![r].counts = stats.storeCounts, ![r].fav = stats.favoriteStore,
                          ![r].recent = stats.recentVisits, ![r].sids = stats.ids]
  /\ UNCHANGED <<retry, build, users, profiles, surveys, customers, calls, registered, visits, now>>

\* The analytics query of the same Promise.all.
V1MembershipCardAnalytics(r) ==
  /\ build = "v1"
  /\ req[r].op = "card" /\ req[r].pc \in {"stats", "analytics"} /\ ~req[r].charted
  /\ LET charts == getVisitAnalyticsForUser(req[r].user) IN
       req' = [req EXCEPT ![r].pc = IF req[r].pc = "analytics" THEN "lineProfile" ELSE "stats",
                          ![r].charted = TRUE,
                          ![r].industry = charts.companionIndustry,
                          ![r].jobType = charts.companionJobType,
                          ![r].purposes = charts.visitPurpose, ![r].cids = charts.ids]
  /\ UNCHANGED <<retry, build, users, profiles, surveys, customers, calls, registered, visits, now>>

\* await lineService.getUserProfile(lineUserId) in try/catch, then res.json.
V1MembershipCardProfile(r) ==
  /\ build = "v1"
  /\ req[r].op = "card" /\ req[r].pc = "lineProfile"
  /\ \/ \E outcome \in {"ok", "fail"} :
          req' = [req EXCEPT ![r].pc = "done", ![r].status = 200, ![r].notif = outcome]
     \/ req' = [req EXCEPT ![r].pc = "hung", ![r].notif = "hang"]
  /\ UNCHANGED <<retry, build, users, profiles, surveys, customers, calls, registered, visits, now>>

\* app.get("/api/membership-card"): the query check and the profile by
\* line_user_id (.single()); no profile is thrown and answered 500.
LegacyMembershipCard(r) ==
  /\ build = "legacy"
  /\ Accepts(r)
  /\ \E l \in LineIds :
       LET found == {p \in profiles : p.line_user_id = l} IN
       req' = [req EXCEPT ![r] =
         IF l = NULL THEN [NewRead("card", l) EXCEPT !.pc = "done", !.status = 400]
         ELSE IF Cardinality(found) # 1
              THEN [NewRead("card", l) EXCEPT !.pc = "done", !.status = 500]
         ELSE [NewRead("card", l) EXCEPT
                 !.pc = "stats", !.user = (CHOOSE p \in found : TRUE).user_id]]
  /\ calls' = calls + 1
  /\ UNCHANGED <<retry, build, users, profiles, surveys, customers, registered, visits, now>>

LegacyMembershipCardStats(r) ==
  /\ build = "legacy"
  /\ req[r].op = "card" /\ req[r].pc = "stats"
  /\ LET stats == aggregateVisitData(req[r].user) IN
       req' = [req EXCEPT ![r].pc = "done", ![r].status = 200,
                          ![r].data = stats.totalVisits,
                          ![r].counts = stats.storeCounts, ![r].fav = stats.favoriteStore,
                          ![r].recent = stats.recentVisits, ![r].charted = TRUE,
                          ![r].industry = stats.companionIndustry,
                          ![r].jobType = stats.companionJobType,
                          ![r].purposes = stats.visitPurpose,
                          ![r].sids = stats.ids, ![r].cids = stats.ids]
  /\ UNCHANGED <<retry, build, users, profiles, surveys, customers, calls, registered, visits, now>>

\* ---------------------------------------------------------------- clock
\* Time passes between requests: a tick is half an hour or more, a request
\* lasts milliseconds.
Tick ==
  /\ \A r \in Reqs : Free(r)
  /\ \E t \in Instants : t > now /\ now' = t
  /\ UNCHANGED <<retry, build, users, profiles, surveys, customers, req, calls, registered, visits>>

\* The servers that have visit routes: the three of Builds and the
\* service-based JavaScript server, which keeps the LINE id in profiles as
\* the legacy server does.
VisitBuilds == Builds \cup {"js"}

\* One member, registered and bound to LINE id "sub1"; "sub2" is bound to nobody.
VisitInit ==
  /\ build \in VisitBuilds
  /\ users = {[id |-> 1, email |-> "a@x.com",
               line_user_id |-> IF build \in {"legacy", "js"} THEN NULL ELSE "sub1",
               stripe_customer_id |-> IF build \in {"legacy", "js"} THEN 0 ELSE 1]}
  /\ profiles = {[user_id |-> 1,
                  line_user_id |-> IF build \in {"legacy", "js"} THEN "sub1" ELSE NULL,
                  stripe_customer_id |-> IF build \in {"legacy", "js"} THEN 1 ELSE 0]}
  /\ surveys = {1}
  /\ customers = {[id |-> 1, email |-> "a@x.com", sub |-> "sub1"]}
  /\ req = [r \in Reqs |-> Idle]
  /\ calls = 0
  /\ registered = {"a@x.com"}
  /\ visits = {}
  /\ now = Start
  /\ retry = NoRetry

VisitNext ==
  \/ Tick
  \/ \E r \in Reqs :
       \/ CheckIn(r)
       \/ V1CheckInGetVisits(r)
       \/ V2CheckInGetVisits(r)
       \/ CheckInCreateVisit(r)
       \/ LegacyCheckIn(r)
       \/ LegacyCheckInInsert(r)
       \/ SubmitVisitSurvey(r)
       \/ SubmitVisitSurveyGetVisit(r)
       \/ SubmitVisitSurveyUpdate(r)
       \/ LegacySubmitVisitSurvey(r)
       \/ LegacySubmitVisitSurveyUpdate(r)
       \/ JsCheckIn(r)
       \/ JsCheckInCreateVisitRecord(r)
       \/ JsSubmitVisitSurvey(r)
       \/ JsSubmitVisitSurveyUpdate(r)
       \/ V2VisitHistory(r)
       \/ V2VisitHistoryRead(r)
       \/ V1MembershipCard(r)
       \/ V1MembershipCardStats(r)
       \/ V1MembershipCardAnalytics(r)
       \/ V1MembershipCardProfile(r)
       \/ LegacyMembershipCard(r)
       \/ LegacyMembershipCardStats(r)

VisitSpec == VisitInit /\ [][VisitNext]_vars

\* ------------------------------------------------ reads over a history
\* The reads (visit history, membership card) applied to the tables that
\* earlier check-ins and surveys have left.
MaxVisits == 3

\* The i-th instant; the visits after the last one share it.
InstantAt(i) ==
  IF i > Cardinality(Instants) THEN CHOOSE t \in Instants : \A u \in Instants : u <= t
  ELSE CHOOSE t \in Instants : Cardinality({u \in Instants : u < t}) = i - 1

\* The survey columns a Visit can hold: none (checked in only), a visit
\* alone, and visits in company with one and with two labels per list. The
\* TypeScript servers store 'single' / 'group' and require a purpose; the
\* legacy server stores the radio value and takes an empty purpose.
SurveyColumns(b) ==
  LET single == IF b = "legacy" THEN SingleLabel ELSE "single"
      group == IF b = "legacy" THEN GroupLabel ELSE "group"
  IN {[visit_type |-> NULL, visit_purpose |-> NULL,
       companion_industries |-> NoList, companion_job_types |-> NoList],
      [visit_type |-> single, visit_purpose |-> "work",
       companion_industries |-> <<>>, companion_job_types |-> <<>>],
      [visit_type |-> group, visit_purpose |-> "work",
       companion_industries |-> <<"IT">>, companion_job_types |-> <<"engineer">>],
      [visit_type |-> group, visit_purpose |-> "meet",
       companion_industries |-> <<"IT", "finance">>,
       companion_job_types |-> <<"engineer", "sales">>]}
     \cup (IF b = "legacy"
           THEN {[visit_type |-> group, visit_purpose |-> "",
                  companion_industries |-> <<"IT">>, companion_job_types |-> <<"engineer">>]}
           ELSE {})

\* The visits tables of up to MaxVisits rows of the members m, made in the
\* order of their ids.
VisitTables(b, m) ==
  LET cells == [user_id : m, store_id : {st.id : st \in Stores}, columns : SurveyColumns(b)]
      row(i, c) == [id |-> i, user_id |-> c.user_id, store_id |-> c.store_id,
                    check_in_at |-> InstantAt(i),
                    visit_type |-> c.columns.visit_type,
                    visit_purpose |-> c.columns.visit_purpose,
                    companion_industries |-> c.columns.companion_industries,
                    companion_job_types |-> c.columns.companion_job_types]
  IN UNION {{{row(i, f[i]) : i \in 1..n} : f \in [1..n -> cells]} : n \in 0..MaxVisits}

\* The member with this id: "a@x.com" bound to "sub1", "b@x.com" to "sub2".
MemberEmail(id) == IF id = 1 THEN "a@x.com" ELSE "b@x.com"
MemberSub(id) == IF id = 1 THEN "sub1" ELSE "sub2"

\* One or two registered and bound members and their visits so far; one more
\* request is admitted.
ReadInit ==
  /\ build \in Builds
  /\ \E m \in {{1}, {1, 2}} :
       /\ users = {[id |-> i, email |-> MemberEmail(i),
                    line_user_id |-> IF build = "legacy" THEN NULL ELSE MemberSub(i),
                    stripe_customer_id |-> IF build = "legacy" THEN 0 ELSE i] : i \in m}
       /\ profiles = {[user_id |-> i,
                       line_user_id |-> IF build = "legacy" THEN MemberSub(i) ELSE NULL,
                       stripe_customer_id |-> IF build = "legacy" THEN i ELSE 0] : i \in m}
       /\ surveys = m
       /\ customers = {[id |-> i, email |-> MemberEmail(i), sub |-> MemberSub(i)] : i \in m}
       /\ registered = {MemberEmail(i) : i \in m}
       /\ visits \in VisitTables(build, m)
  /\ req = [r \in Reqs |-> Idle]
  /\ calls = MaxCalls - 1
  /\ now = InstantAt(MaxVisits)
  /\ retry = NoRetry

ReadNext ==
  \E r \in Reqs :
    \/ V1VisitHistory(r)
    \/ V1VisitHistoryRead(r)
    \/ V2VisitHistory(r)
    \/ V2VisitHistoryRead(r)
    \/ V1MembershipCard(r)
    \/ V1MembershipCardStats(r)
    \/ V1MembershipCardAnalytics(r)
    \/ V1MembershipCardProfile(r)
    \/ LegacyMembershipCard(r)
    \/ LegacyMembershipCardStats(r)

ReadSpec == ReadInit /\ [][ReadNext]_vars

\* ------------------------------------------------------ password reset
\* The messages of the answers of POST /request-password-reset.
EmailRequired == "email required"
ResetMailSent == "reset mail sent"
ResetMailSentIfAccountExists == "reset mail sent (if such an account exists)"
ResetFailed == "error while requesting the reset"

NewReset(e) == [Idle EXCEPT !.op = "reset", !.email = e]

\* POST /request-password-reset of routes/auth.ts: the body check and
\* getUserByEmail; an unknown email is answered like a known one.
V1RequestPasswordReset(r) ==
  /\ build = "v1"
  /\ Accepts(r)
  /\ \E e \in Emails \cup {NULL} :
       LET found == getUserByEmail(e) IN
       req' = [req EXCEPT ![r] =
         IF e = NULL
         THEN [NewReset(e) EXCEPT !.pc = "done", !.status = 400, !.body = EmailRequired]
         ELSE IF found = {}
              THEN [NewReset(e) EXCEPT !.pc = "done", !.status = 200, !.body = ResetMailSent]
         ELSE [NewReset(e) EXCEPT !.pc = "saveToken",
                                  !.user = (CHOOSE u \in found : TRUE).id]]
  /\ calls' = calls + 1
  /\ UNCHANGED <<retry, visits, now, build, users, profiles, surveys, customers, registered>>

\* await db.updateUser(user.id, {}) and the answer; a store error is caught
\* and answered 500.
V1RequestPasswordResetUpdateUser(r) ==
  /\ build = "v1"
  /\ req[r].op = "reset" /\ req[r].pc = "saveToken"
  /\ \/ req' = [req EXCEPT ![r].pc = "done", ![r].status = 200, ![r].body = ResetMailSent]
     \/ req' = [req EXCEPT ![r].pc = "done", ![r].status = 500, ![r].body = ResetFailed,
                           ![r].cause = "storage"]
  /\ UNCHANGED <<retry, visits, now, build, users, profiles, surveys, customers, calls, registered>>

\* POST /request-password-reset of the rate-limited routes: an unknown email
\* is answered 200 with the message that names the condition.
V2RequestPasswordReset(r) ==
  /\ build = "v2"
  /\ Accepts(r)
  /\ \E e \in Emails \cup {NULL} :
       LET found == getUserByEmail(e) IN
       req' = [req EXCEPT ![r] =
         IF e = NULL
         THEN [NewReset(e) EXCEPT !.pc = "done", !.status = 400, !.body = EmailRequired]
         ELSE IF found = {}
              THEN [NewReset(e) EXCEPT !.pc = "done", !.status = 200,
                                       !.body = ResetMailSentIfAccountExists]
         ELSE [NewReset(e) EXCEPT !.pc = "saveToken",
                                  !.user = (CHOOSE u \in found : TRUE).id]]
  /\ calls' = calls + 1
  /\ UNCHANGED <<retry, visits, now, build, users, profiles, surveys, customers, registered>>

\* await db.setPasswordResetToken(email, resetToken, expiresAt) and the answer.
V2RequestPasswordResetSetToken(r) ==
  /\ build = "v2"
  /\ req[r].op = "reset" /\ req[r].pc = "saveToken"
  /\ \/ req' = [req EXCEPT ![r].pc = "done", ![r].status = 200, ![r].body = ResetMailSent]
     \/ req' = [req EXCEPT ![r].pc = "done", ![r].status = 500, ![r].body = ResetFailed,
                           ![r].cause = "storage"]
  /\ UNCHANGED <<retry, visits, now, build, users, profiles, surveys, customers, calls, registered>>

\* No, one or two registered members; no request so far.
ResetInit ==
  /\ build \in {"v1", "v2"}
  /\ \E m \in SUBSET {1, 2} :
       /\ users = {[id |-> i, email |-> MemberEmail(i), line_user_id |-> MemberSub(i),
                    stripe_customer_id |-> i] : i \in m}
       /\ profiles = {[user_id |-> i, line_user_id |-> NULL, stripe_customer_id |-> 0] : i \in m}
       /\ surveys = m
       /\ customers = {[id |-> i, email |-> MemberEmail(i), sub |-> MemberSub(i)] : i \in m}
       /\ registered = {MemberEmail(i) : i \in m}
  /\ visits = {}
  /\ req = [r \in Reqs |-> Idle]
  /\ calls = 0
  /\ now = Start
  /\ retry = NoRetry

ResetNext ==
  \E r \in Reqs :
    \/ V1RequestPasswordReset(r)
    \/ V1RequestPasswordResetUpdateUser(r)
    \/ V2RequestPasswordReset(r)
    \/ V2RequestPasswordResetSetToken(r)

ResetSpec == ResetInit /\ [][ResetNext]_vars

\* ---------------------------------------------------------------- retry
\* retry<T>(fn, maxAttempts = 3, delay = 1000) of the utilities.
DefaultMaxAttempts == 3
DefaultDelay == 1000
\* The greatest maxAttempts passed, the delays passed, what fn returns and
\* what it throws.
MaxAttempts == 4
Delays == {0, 500, 1000}
Values == {"value1", "value2"}
Errors == {"error1", "error2"}

RECURSIVE Pow2(_)
Pow2(n) == IF n <= 0 THEN 1 ELSE 2 * Pow2(n - 1)

\* A backoff that does not grow.
BackoffDelayConstant(delay, attempt) == delay

\* delay * Math.pow(2, attempt - 1)
BackoffDelay(delay, attempt) == delay * Pow2(attempt - 1)

\* The call: the arguments bound, lastError declared, attempt = 1.
RetryFrames ==
  {[NoRetry EXCEPT !.pc = "loop", !.given = TRUE, !.maxAttempts = m, !.delay = d,
                   !.attempt = 1] : m \in 0..MaxAttempts, d \in Delays}
  \cup {[NoRetry EXCEPT !.pc = "loop", !.maxAttempts = DefaultMaxAttempts,
                        !.delay = DefaultDelay, !.attempt = 1]}

\* for (...; attempt <= maxAttempts; ...): the loop test; past the loop,
\* throw lastError!.
RetryLoopTest ==
  /\ retry.pc = "loop"
  /\ retry' = IF retry.attempt <= retry.maxAttempts
              THEN [retry EXCEPT !.pc = "call"]
              ELSE [retry EXCEPT !.pc = "rejected", !.error = retry.lastError]
  /\ UNCHANGED <<build, users, profiles, surveys, customers, req, calls, registered, visits, now>>

\* return await fn() in try / catch: the value is returned; an error is kept
\* in lastError and thrown when this was the last attempt.
RetryInvoke ==
  /\ retry.pc = "call"
  /\ \/ \E v \in Values :
          retry' = [retry EXCEPT !.pc = "resolved", !.invoked = @ + 1, !.result = v]
     \/ \E e \in Errors :
          retry' = [retry EXCEPT
                      !.invoked = @ + 1, !.lastError = e, !.thrown = Append(@, e),
                      !.pc = IF retry.attempt = retry.maxAttempts THEN "rejected" ELSE "sleep",
                      !.error = IF retry.attempt = retry.maxAttempts THEN e ELSE @]
  /\ UNCHANGED <<build, users, profiles, surveys, customers, req, calls, registered, visits, now>>

\* await sleep(delay * Math.pow(2, attempt - 1)), then attempt++.
RetrySleep ==
  /\ retry.pc = "sleep"
  /\ retry' = [retry EXCEPT !.pc = "loop", !.attempt = @ + 1,
                            !.waits = Append(@, BackoffDelay(retry.delay, retry.attempt))]
  /\ UNCHANGED <<build, users, profiles, surveys, customers, req, calls, registered, visits, now>>

RetryInit ==
  /\ build = "v2"
  /\ users = {} /\ profiles = {} /\ surveys = {} /\ customers = {} /\ registered = {}
  /\ visits = {}
  /\ req = [r \in Reqs |-> Idle]
  /\ calls = 0
  /\ now = Start
  /\ retry \in RetryFrames

RetryNext ==
  \/ RetryLoopTest
  \/ RetryInvoke
  \/ RetrySleep

\* Every invocation of fn and every sleep ends: a step that can be taken is
\* taken.
RetrySpec == RetryInit /\ [][RetryNext]_vars /\ WF_vars(RetryNext)

\* ---------------------------------------------------------------- claims
\* What the identity platform accepts: a well-formed, unexpired assertion
\* carrying its subject.
TokenValid(t) == t.wellFormed /\ t.sub # NULL /\ t.issAud /\ ~t.expired

IsRegister(r) == req[r].op = "register"
IsLink(r) == req[r].op = "link"
Answered(r) == req[r].pc = "done"

\* C1: once a register for email E has answered 201, a later register for E
\* (arrived after that answer, with a valid token and an accepted payload)
\* answers 409 and writes nothing: no Stripe customer, no User, Profile or
\* Survey row.
C1_LaterRegisterConflicts ==
  \A r \in Reqs :
    (IsRegister(r) /\ req[r].prior /\ TokenValid(req[r].token)) =>
      /\ req[r].fx = {}
      /\ (Answered(r) /\ req[r].status # 400) => req[r].status = 409

\* C2: at most one Stripe customer is ever created for an email, overlapping
\* register calls included (stated for the TypeScript routes).
C2_OneCustomerPerEmail ==
  build \in {"v1", "v2"} =>
    \A e \in Emails : Cardinality({c \in customers : c.email = e}) <= 1

\* C3: with concurrent registers for one email at most one User row is
\* persisted, and the call refused by the uniqueness constraint answers 409.
C3_ConstraintLoserGetsConflict ==
  build \in {"v1", "v2"} =>
    /\ \A e \in Emails : Cardinality(getUserByEmail(e)) <= 1
    /\ \A r \in Reqs :
         (IsRegister(r) /\ Answered(r) /\ req[r].cause = "unique") => req[r].status = 409

\* C4: a register whose identity token is invalid or expired answers 401 and
\* has no side effect, whether or not its email is registered (routes/auth.ts
\* and the rate-limited route; a payload refused with 400 is left aside).
C4_InvalidTokenNoEffect ==
  build \in {"v1", "v2"} =>
    \A r \in Reqs :
      (IsRegister(r) /\ ~TokenValid(req[r].token)) =>
        /\ req[r].fx = {}
        /\ (Answered(r) /\ req[r].status # 400) => req[r].status = 401

\* C5: when the creation of the Stripe customer fails, the register call
\* fails and has written nothing to the store.
C5_PaymentFailureNothingPersisted ==
  \A r \in Reqs :
    (IsRegister(r) /\ req[r].cause = "payment") =>
      /\ req[r].status = 500
      /\ req[r].fx = {}

\* C6: at the step where a register answers 201, the User row of its email
\* carries the token's subject as line_user_id and the customer created by
\* this call as stripe_customer_id, and that customer id is the one returned.
C6_UserRowCarriesSubjectAndCustomer ==
  [][\A r \in Reqs :
       ( /\ build \in {"v1", "v2"}
         /\ req[r].pc # "done"
         /\ req'[r].op = "register" /\ req'[r].pc = "done" /\ req'[r].status = 201 ) =>
         /\ "customer" \in req'[r].fx
         /\ req'[r].data = req'[r].cust
         /\ \E u \in users' : /\ u.email = req'[r].email
                                /\ u.line_user_id = req'[r].token.sub
                                /\ u.stripe_customer_id = req'[r].data]_vars

\* C7: when the Profile or the Survey write fails after the User row was
\* written, the register call answers with one failure (500) and nothing is
\* rolled back: the User row and the Stripe customer of this call are still
\* there (routes/auth.ts and the rate-limited route).
C7_PartialFailureNoRollback ==
  build \in {"v1", "v2"} =>
    \A r \in Reqs :
      (IsRegister(r) /\ req[r].cause = "storage" /\ "user" \in req[r].fx) =>
        /\ Answered(r) /\ req[r].status = 500
        /\ \E u \in users : u.id = req[r].user /\ u.email = req[r].email
                             /\ u.stripe_customer_id = req[r].cust
        /\ \E c \in customers : c.id = req[r].cust /\ c.email = req[r].email

C7_Witness ==
  \E r \in Reqs :
    /\ build \in {"v1", "v2"}
    /\ IsRegister(r) /\ Answered(r)
    /\ req[r].cause = "storage" /\ req[r].fx = {"customer", "user", "profile"}

\* C8: the answer of register and of linkAccount is the one the handler had
\* settled on before its best-effort LINE call, whether that call succeeds,
\* fails or never completes (the legacy register, the link of routes/auth.ts).
C8_NotificationNeverBlocksOrFails ==
  \A r \in Reqs :
    ( /\ req[r].notif # "none"
      /\ \/ IsRegister(r) /\ build = "legacy"
         \/ IsLink(r) /\ build = "v1" /\ req[r].pc # "welcome" ) =>
      Answered(r) /\ req[r].status = req[r].decided

\* C9: a link whose email matches no User answers 404 and writes nothing,
\* whatever the binding of the LINE id.
C9_LinkUnknownEmailNotFound ==
  build \in {"v1", "v2"} =>
    \A r \in Reqs :
      (IsLink(r) /\ Answered(r) /\ req[r].status # 400
         /\ getUserByEmail(req[r].email) = {}) =>
        req[r].status = 404 /\ req[r].fx = {}

\* C10: a link for a User already bound to a different LINE id is refused
\* and leaves the row alone, so a bound line_user_id is never replaced by
\* another value (routes/auth.ts over services/databse.ts).
C10_BindingNeverReplaced ==
  [][build = "v1" =>
       \A u \in users : u.line_user_id # NULL =>
         \E v \in users' : v.id = u.id /\ v.line_user_id = u.line_user_id]_vars

\* C11: a link for a User already bound to the same LINE id answers 200 and
\* leaves the binding as it is, so repeating a successful link succeeds again
\* (checked at the step where the call is answered; store errors aside).
C11_LinkIdempotent ==
  [][\A r \in Reqs :
       ( /\ build \in {"v1", "v2"}
         /\ req'[r] # req[r]
         /\ req'[r].op = "link" /\ req'[r].pc = "done"
         /\ req'[r].line # NULL /\ req'[r].cause = "none"
         /\ \E u \in users : u.email = req'[r].email /\ u.line_user_id = req'[r].line ) =>
         /\ req'[r].status = 200
         /\ \E u \in users' : u.email = req'[r].email /\ u.line_user_id = req'[r].line]_vars

\* C12: in every reachable state no two User rows carry the same non-null
\* line_user_id, whatever the interleaving of register and link calls.
C12_LineIdUnique ==
  build \in {"v1", "v2"} =>
    \A u, v \in users :
      (u.line_user_id # NULL /\ u.line_user_id = v.line_user_id) => u = v

\* A link whose update was refused by the store because another row holds the id.
C12_Witness ==
  \E r \in Reqs :
    /\ build \in {"v1", "v2"}
    /\ IsLink(r) /\ Answered(r) /\ req[r].cause = "unique"
    /\ Cardinality(getUserByLineId(req[r].line)) = 1

IsCheckIn(r) == req[r].op = "checkin"
IsSurvey(r) == req[r].op = "survey"
\* A member is bound to LINE id l (users.line_user_id, or profiles.line_user_id
\* in the legacy server).
Bound(l) ==
  \/ \E u \in users : u.line_user_id = l
  \/ \E p \in profiles : p.line_user_id = l

\* C13: a check-in for a LINE id bound to no User, or for a store id that no
\* Store has, answers 404 and creates no Visit.
C13_CheckInNotFound ==
  \A r \in Reqs :
    ( /\ IsCheckIn(r) /\ Answered(r) /\ req[r].line # NULL
      /\ (~Bound(req[r].line) \/ getStoreById(req[r].store) = {}) ) =>
      /\ req[r].status = 404
      /\ req[r].fx = {}

\* C14: a check-in is answered 409 and creates no Visit whenever a Visit of
\* the same user at the same store, already there when the call arrived, was
\* made less than the window (one hour) before it.
C14_RepeatInWindowRejected ==
  build \in {"v1", "v2"} =>
    \A r \in Reqs :
      ( /\ IsCheckIn(r) /\ Answered(r)
        /\ \E v \in visits : /\ v.id \in req[r].seen
                             /\ v.user_id = req[r].user /\ v.store_id = req[r].store
                             /\ req[r].at - v.check_in_at < Window ) =>
        /\ req[r].status = 409
        /\ req[r].fx = {}

\* C15: a check-in of a resolved user at an existing store is answered 201
\* with a new visit id whenever no other Visit of that user at that store was
\* made within the window before it, whatever the calendar day (store errors
\* aside).
C15_CheckInSucceedsOutsideWindow ==
  build \in {"v1", "v2"} =>
    \A r \in Reqs :
      ( /\ IsCheckIn(r) /\ Answered(r) /\ req[r].user # 0 /\ req[r].cause = "none"
        /\ ~ \E v \in visits : /\ v.id # req[r].visit
                               /\ v.user_id = req[r].user /\ v.store_id = req[r].store
                               /\ v.check_in_at <= req[r].at
                               /\ req[r].at - v.check_in_at < Window ) =>
        /\ req[r].status = 201
        /\ req[r].visit \notin req[r].seen
        /\ \E v \in visits : v.id = req[r].visit /\ v.check_in_at = req[r].at

\* C16: of two check-ins of one user at one store that overlap within the
\* window, at most one creates a Visit: two calls that both created one were
\* not concurrent (one's Visit was there when the other arrived).
C16_ConcurrentCheckInsOneVisit ==
  build \in {"v1", "v2"} =>
    \A r1, r2 \in Reqs :
      ( /\ r1 # r2 /\ IsCheckIn(r1) /\ IsCheckIn(r2)
        /\ req[r1].fx = {"visit"} /\ req[r2].fx = {"visit"}
        /\ req[r1].user = req[r2].user /\ req[r1].store = req[r2].store
        /\ req[r1].at - req[r2].at < Window /\ req[r2].at - req[r1].at < Window ) =>
        (req[r1].visit \in req[r2].seen \/ req[r2].visit \in req[r1].seen)

\* C17: a Visit stored as single has both companion lists empty, and every
\* history answer shows them empty for it, whatever lists the survey passed.
C17_SingleVisitNoCompanions ==
  build \in {"v1", "v2"} =>
    /\ \A v \in visits :
         v.visit_type = "single" =>
           v.companion_industries = <<>> /\ v.companion_job_types = <<>>
    /\ \A r \in Reqs :
         (req[r].op = "history" /\ Answered(r) /\ req[r].status = 200) =>
           \A i \in 1..Len(req[r].hist) :
             req[r].hist[i].visitType = "single" =>
               /\ req[r].hist[i].companionIndustries = <<>>
               /\ req[r].hist[i].companionJobTypes = <<>>

\* A survey for a visit alone that passed non-empty lists has been written,
\* and a history read shows that visit.
C17_Witness ==
  \E r, q \in Reqs :
    /\ build = "v2"
    /\ IsSurvey(r) /\ Answered(r) /\ req[r].status = 200 /\ "visit" \in req[r].fx
    /\ req[r].vtype = SingleLabel /\ req[r].ci = <<"IT">> /\ req[r].cj = <<"engineer">>
    /\ req[q].op = "history" /\ Answered(q) /\ req[q].status = 200
    /\ \E i \in 1..Len(req[q].hist) :
         req[q].hist[i].id = req[r].visit /\ req[q].hist[i].visitType = "single"

\* C18: a survey submitted again for a Visit is answered 200 and leaves in
\* the row exactly what this call determines: its type, its purpose and its
\* companion lists (none when it passes none); nothing of the earlier
\* submission stays (routes/user.ts; checked at the step of the write).
C18_ResubmissionLastWriteWins ==
  [][\A r \in Reqs :
       ( /\ build = "v1"
         /\ req[r].op = "survey" /\ req[r].pc = "update"
         /\ req'[r].pc = "done" /\ req'[r].cause = "none"
         /\ \E v \in visits : v.id = req[r].visit /\ v.visit_type # NULL ) =>
         /\ req'[r].status = 200
         /\ \E w \in visits' :
              /\ w.id = req[r].visit
              /\ w.visit_type = (IF req[r].vtype = SingleLabel THEN "single" ELSE "group")
              /\ w.visit_purpose = req[r].purpose
              /\ w.companion_industries \in
                   (IF req[r].vtype = SingleLabel \/ req[r].ci = Absent
                    THEN {<<>>, NoList} ELSE {req[r].ci})
              /\ w.companion_job_types \in
                   (IF req[r].vtype = SingleLabel \/ req[r].cj = Absent
                    THEN {<<>>, NoList} ELSE {req[r].cj})]_vars

\* C19: a Visit is created by a check-in with type, purpose and companion
\* lists unset; only a survey submission gives it a type; once it has one it
\* keeps one; and no step removes a Visit.
C19_VisitLifecycle ==
  [][(build \in {"v1", "v2"}) =>
       ( /\ \A v \in visits :
              \E w \in visits' :
                /\ w.id = v.id
                /\ (v.visit_type # NULL => w.visit_type # NULL)
                /\ ((v.visit_type = NULL /\ w.visit_type # NULL) =>
                      (\E r \in Reqs : req[r].op = "survey" /\ req'[r].pc = "done"
                                       /\ req[r].visit = v.id))
         /\ \A w \in visits' :
              (~ \E v \in visits : v.id = w.id) =>
                ( /\ w.visit_type = NULL /\ w.visit_purpose = NULL
                  /\ w.companion_industries = NoList /\ w.companion_job_types = NoList
                  /\ (\E r \in Reqs : req[r].op = "checkin" /\ req'[r].visit = w.id) ) )
    ]_vars

\* A Visit that a survey has given a type, submitted a second time.
C19_Witness ==
  \E r \in Reqs :
    /\ build \in {"v1", "v2"}
    /\ IsSurvey(r) /\ Answered(r) /\ req[r].status = 200 /\ calls = MaxCalls
    /\ \E v \in visits : v.id = req[r].visit /\ v.visit_type = "group"
                         /\ v.id \in req[r].seen /\ v.visit_purpose = req[r].purpose

RECURSIVE SumCounts(_)
SumCounts(c) == IF c = <<>> THEN 0 ELSE Head(c).n + SumCounts(Tail(c))

\* C20: at the step where a membership card computes its stats, totalVisits
\* is the number of Visit rows of the resolved user and is the sum of the
\* per-store counts from which favoriteStore is taken.
C20_TotalVisitsIsSumOfStoreCounts ==
  [][\A r \in Reqs :
       (req[r].op = "card" /\ req[r].pc = "stats" /\ req'[r].pc # "stats") =>
         /\ req'[r].data = Cardinality({v \in visits : v.user_id = req[r].user})
         /\ SumCounts(req'[r].counts) = req'[r].data]_vars

\* A card answered for a member with two visits at one store.
C20_Witness ==
  \E r \in Reqs :
    /\ req[r].op = "card" /\ Answered(r) /\ req[r].status = 200
    /\ req[r].data = 2
    /\ \E i \in 1..Len(req[r].counts) : req[r].counts[i].n = 2

\* C28: the stats and the charts of one membership card answer are computed
\* from the same visits, whatever check-ins and surveys run beside it; the
\* purposes counted in charts.visitPurpose are never more than totalVisits.
C28_CardStatsAndChartsFromSameVisits ==
  \A r \in Reqs :
    (req[r].op = "card" /\ Answered(r) /\ req[r].status = 200) =>
      /\ req[r].sids = req[r].cids
      /\ SumCounts(req[r].purposes) <= req[r].data

\* C27: a Visit whose companion_industries or companion_job_types is not
\* empty has visit_type group; none holds companion data while its type is
\* unset or single.
\* (The service-based server stores the radio value itself; its value for a
\* visit in company is read as group.)
C27_CompanionsOnlyOnGroupVisits ==
  build \in {"v1", "v2", "js"} =>
    \A v \in visits :
      (v.companion_industries \notin {NoList, <<>>} \/ v.companion_job_types \notin {NoList, <<>>})
        => v.visit_type \in {"group", GroupLabel}

\* --------------------------------------------- claims about the reads
\* A membership card, or a first page of the history, answered with data.
CardAnswered(r) == req[r].op = "card" /\ Answered(r) /\ req[r].status = 200
\* The visits of user u, and how many of them were made at store s.
UserVisits(u) == {v \in visits : v.user_id = u}
VisitCount(u, s) == Cardinality({v \in UserVisits(u) : v.store_id = s})
\* The stores with the most visits of user u.
Leaders(u) ==
  {st \in Stores : \A o \in Stores : VisitCount(u, o.id) <= VisitCount(u, st.id)}
\* The time of the latest visit of user u at store s (0: none).
LatestAt(u, s) ==
  IF VisitCount(u, s) = 0 THEN 0
  ELSE CHOOSE t \in {v.check_in_at : v \in {w \in UserVisits(u) : w.store_id = s}} :
         \A v \in UserVisits(u) : v.store_id = s => v.check_in_at <= t

C22_FavoriteStoreTieBreakByRecency ==
  \A r \in Reqs :
    (CardAnswered(r) /\ req[r].data >= 1) =>
      \E st \in Leaders(req[r].user) :
        /\ st.name = req[r].fav
        /\ \A o \in Leaders(req[r].user) :
             LatestAt(req[r].user, o.id) <= LatestAt(req[r].user, st.id)

\* C23: recentVisits is the two most recent visits of the user (all of them
\* when there are fewer), newest first, each as {date, storeName}.
C23_RecentVisitsAreTheTwoLatest ==
  \A r \in Reqs :
    CardAnswered(r) =>
      LET vs == OrderedVisits(UserVisits(req[r].user))
          n == IF Len(vs) < 2 THEN Len(vs) ELSE 2
      IN /\ Len(req[r].recent) = n
         /\ \A i \in 1..n :
              /\ req[r].recent[i].date = vs[i].check_in_at
              /\ req[r].recent[i].storeName = StoreName(vs[i].store_id)

\* The labels a companion list can hold, and how often label l occurs in the
\* lists of the user's visits (a null list holds nothing).
Labels == {"IT", "finance", "engineer", "sales"}
CompanionList(v, column) ==
  LET list == IF column = "industries" THEN v.companion_industries
              ELSE v.companion_job_types
  IN IF list = NoList THEN <<>> ELSE list
Occurrences(u, l, column) ==
  Cardinality(UNION {{<<v.id, i>> : i \in {j \in 1..Len(CompanionList(v, column)) :
                                              CompanionList(v, column)[j] = l}} :
                     v \in UserVisits(u)})
\* chart is exactly the frequency map given by count: one entry per key
\* that occurs, holding its number of occurrences.
IsFrequencyMap(chart, keys, count(_)) ==
  /\ \A i, j \in 1..Len(chart) : chart[i].key = chart[j].key => i = j
  /\ \A i \in 1..Len(chart) : chart[i].key \in keys /\ chart[i].n >= 1
  /\ \A k \in keys : CountOf(chart, k) = (IF count(k) = 0 THEN -1 ELSE count(k))

\* C24: charts.companionIndustry and charts.companionJobType hold, for every
\* label, the number of its occurrences in the companion lists of all the
\* user's visits, a null list counting as empty; labels that never occur
\* have no entry.
C24_CompanionChartsCountOccurrences ==
  \A r \in Reqs :
    CardAnswered(r) =>
      LET industries(l) == Occurrences(req[r].user, l, "industries")
          jobTypes(l) == Occurrences(req[r].user, l, "jobTypes")
      IN /\ IsFrequencyMap(req[r].industry, Labels, industries)
         /\ IsFrequencyMap(req[r].jobType, Labels, jobTypes)

\* A card over three visits whose industry lists are ["IT"], ["IT", "finance"]
\* and []: IT is counted twice and finance once.
C24_Witness ==
  \E r \in Reqs :
    /\ CardAnswered(r)
    /\ {v.companion_industries : v \in UserVisits(req[r].user)}
         = {<<"IT">>, <<"IT", "finance">>, <<>>}
    /\ Cardinality(UserVisits(req[r].user)) = 3
    /\ CountOf(req[r].industry, "IT") = 2 /\ CountOf(req[r].industry, "finance") = 1
    /\ Len(req[r].industry) = 2

\* C25: charts.visitPurpose holds, for every non-empty purpose, the number of
\* the user's visits with that purpose; visits whose purpose is null or
\* empty are counted nowhere.
C25_PurposeChartCountsNonEmptyPurposes ==
  \A r \in Reqs :
    CardAnswered(r) =>
      LET withPurpose(p) == Cardinality({v \in UserVisits(req[r].user) : v.visit_purpose = p})
      IN IsFrequencyMap(req[r].purposes, Purposes, withPurpose)

\* A card of the legacy server over a visit with an empty purpose, one with
\* none and one with a purpose.
C25_Witness ==
  \E r \in Reqs :
    /\ CardAnswered(r) /\ build = "legacy"
    /\ {v.visit_purpose : v \in UserVisits(req[r].user)} = {"", NULL, "work"}
    /\ req[r].purposes = <<[key |-> "work", n |-> 1]>>

\* C26: a visit history answers 404 when no user is bound to the LINE id;
\* otherwise it lists the visits of that user and of nobody else, newest
\* first, each with the name of its store.
C26_HistoryOfTheResolvedUser ==
  (build \in {"v1", "v2"}) =>
    \A r \in Reqs :
      (req[r].op = "history" /\ Answered(r) /\ req[r].line # NULL /\ req[r].page = 1) =>
        IF ~Bound(req[r].line) THEN req[r].status = 404
        ELSE LET u == (CHOOSE x \in getUserByLineId(req[r].line) : TRUE).id
                 h == req[r].hist
             IN /\ req[r].status = 200
                /\ {h[i].id : i \in 1..Len(h)} = {v.id : v \in UserVisits(u)}
                /\ Len(h) = Cardinality(UserVisits(u))
                /\ \A i \in 1..Len(h) :
                     \E v \in UserVisits(u) :
                       /\ v.id = h[i].id /\ h[i].checkInAt = v.check_in_at
                       /\ h[i].storeName = StoreName(v.store_id)
                /\ \A i, j \in 1..Len(h) : i < j => h[i].checkInAt >= h[j].checkInAt

\* A history of two visits answered while the other member has a visit made
\* between them.
C26_Witness ==
  \E r \in Reqs :
    /\ req[r].op = "history" /\ Answered(r) /\ req[r].status = 200
    /\ Len(req[r].hist) = 2
    /\ req[r].hist[1].checkInAt > req[r].hist[2].checkInAt
    /\ \E v \in visits : /\ v.user_id # req[r].user
                         /\ v.check_in_at < req[r].hist[1].checkInAt
                         /\ v.check_in_at > req[r].hist[2].checkInAt

\* C29: a password reset requested for the email of a registered user and
\* one requested for an email of nobody are answered with the same status
\* and the same body (store errors aside).
C29_ResetAnswerHidesRegistration ==
  \A r1, r2 \in Reqs :
    ( /\ req[r1].op = "reset" /\ Answered(r1) /\ req[r1].cause = "none"
      /\ req[r2].op = "reset" /\ Answered(r2) /\ req[r2].cause = "none"
      /\ req[r1].email # NULL /\ getUserByEmail(req[r1].email) # {}
      /\ req[r2].email # NULL /\ getUserByEmail(req[r2].email) = {} ) =>
      /\ req[r1].status = req[r2].status
      /\ req[r1].body = req[r2].body

\* C30: retry calls fn at most maxAttempts times; it resolves with the value
\* of the first call that succeeds and calls fn no more; after the k-th
\* failure it sleeps delay * 2^(k-1), and only when another attempt follows;
\* after maxAttempts failures it rejects with the last error; and it always
\* settles.
C30_RetryBoundedWithBackoff ==
  /\ [](LET failures == Len(retry.thrown) IN
         /\ retry.invoked <= retry.maxAttempts
         /\ Len(retry.waits) <= failures
         /\ \A k \in 1..Len(retry.waits) : retry.waits[k] = retry.delay * Pow2(k - 1)
         /\ (retry.pc = "loop" /\ retry.waits # <<>>) => retry.attempt <= retry.maxAttempts
         /\ retry.pc = "resolved" =>
              /\ retry.result \in Values
              /\ retry.invoked = failures + 1
              /\ Len(retry.waits) = failures
         /\ retry.pc = "rejected" =>
              /\ retry.invoked = retry.maxAttempts /\ failures = retry.maxAttempts
              /\ retry.error = (IF failures = 0 THEN NULL ELSE retry.thrown[failures])
              /\ Len(retry.waits) = (IF failures = 0 THEN 0 ELSE failures - 1))
  /\ <>(retry.pc \in {"resolved", "rejected"})

\* A call with the default arguments rejected after three failures, having
\* slept 1000 and 2000.
C30_Witness ==
  /\ retry.pc = "rejected" /\ ~retry.given
  /\ retry.invoked = 3 /\ retry.thrown = <<"error1", "error1", "error2">>
  /\ retry.error = "error2"
  /\ retry.waits = <<1000, 2000>>
====
